---- MODULE Spec2Model ----
(***************************************************************************)
(* Persona summarizer: the relevance gate and the chunk-then-reduce        *)
(* pipeline of persona_summarizer_streamlit_dynamic.py, with the helpers   *)
(* of utils.py it calls (chunk_text_by_tokens, safe_cosine_similarity,     *)
(* log_skipped_summary, extract_keywords_from_text).                       *)
(*                                                                         *)
(* Three state machines share the module:                                  *)
(*   SpecChunk  calls of chunk_text_by_tokens, one loop iteration a step   *)
(*   SpecCos    calls of safe_cosine_similarity                            *)
(*   Spec       runs of the `if generate:` block                           *)
(***************************************************************************)
EXTENDS Integers, Sequences, FiniteSets, TLC

VARIABLES
    \* chunk_text_by_tokens (utils.py 49-64)
    ck_pc,          \* "idle" | "loop" | "done" | "raised"
    ck_text,        \* argument text
    ck_chunk_size,  \* argument chunk_size
    ck_overlap,     \* argument overlap
    ck_tokens,      \* local tokens
    ck_chunks,      \* local chunks
    ck_start,       \* local start
    ck_spans,       \* the <<start, end>> of every slice tokens[start:end] taken so far
    ck_prev,        \* the previous completed call: its arguments and what it returned
    \* safe_cosine_similarity (utils.py 37-43)
    cos_pc,         \* "idle" | "returned" | "raised"
    cos_a,          \* argument a
    cos_b,          \* argument b
    cos_ret,        \* what the call came to: [kind, value], value in units of 1/10000
    \* the `if generate:` block (persona_summarizer_streamlit_dynamic.py 54-185)
    pc,             \* where the script run is
    run,            \* how many times Generate was pressed
    uploaded_file,  \* the upload widget's value
    persona,        \* the persona selectbox
    override_skip,  \* the "Force summary even if relevance is low" checkbox
    raw_text,       \* the extracted text
    keyword_text,
    fallback_chunks,
    fallback_i,     \* how many fallback chunks the loop of line 78 has tried
    doc_embedding,
    persona_vector,
    score,          \* in units of 1/10000
    label,
    chunks,
    chunk_summaries,
    ui,             \* what this run has put on the page, in order
    calls,          \* the external calls this run has made, in order
    emitted,        \* the entries this run has handed to log_skipped_summary
    skipped_csv,    \* the rows of skipped_summaries.csv
    provider_down,  \* every keyword-extraction call of this run so far raised
                    \* inside extract_keywords_from_text
    \* the labelling of a score (persona_summarizer_streamlit_dynamic.py 101-108)
    lb_score,       \* the score labelled last, in units of 1/10000
    lb_label,       \* the label it got, "" before any
    lb_prev,        \* the score and label of the labelling before that
    \* extract_keywords_from_text (utils.py 183-205)
    kw_pc,          \* "idle" | "returned" | "raised"
    kw_outcome,     \* what chat.completions.create came to
    kw_ret,         \* what the call came to: [kind, value]
    \* get_embedding (utils.py 23-31)
    emb_pc,         \* "idle" | "entered" | "encoded" | "truncated" | "returned" | "raised"
    emb_text,       \* argument text
    emb_tokens,     \* len(tokens)
    emb_chars,      \* len(text) once decoded
    emb_attempts,   \* how many times embeddings.create was called
    emb_outcome,    \* what embeddings.create came to
    emb_error,      \* the class of the exception that left the function, "" if none
    emb_ret,        \* what the call came to: [kind, value]
    \* log_skipped_summary (utils.py 91-98) called from several sessions
    lg_file,        \* the rows of skipped_summaries.csv
    lg_pc,          \* per session: "idle" | "called" | "read"
    lg_entry,       \* per session: the log_entry argument
    lg_existing,    \* per session: the rows pd.read_csv gave
    lg_logged,      \* every entry whose call has returned, in order of return
    \* fetch_kev (cisa_scraper_kevfeed.py 29-64)
    kev_cache,      \* the hashes in HASH_CACHE_FILE (none when there is no file)
    kev_output,     \* the entries in OUTPUT_FILE (none when there is no file)
    kev_pc,         \* "idle" | "loop" | "returned"
    kev_n,          \* the number of this call
    kev_feed,       \* the "vulnerabilities" list the feed holds at this call
    kev_ok,         \* whether the request for the feed succeeded
    kev_limit,      \* the limit argument, 0 for None
    kev_vulns,      \* vulns
    kev_i,          \* how many of them the loop has been through
    kev_seen,       \* seen_hashes
    kev_new_hashes, \* new_hashes
    kev_new_vulns,  \* new_vulns
    kev_ret,        \* the list returned
    kev_before,     \* the two files as they were when the call began
    kev_repeat      \* the call before this one fetched the same feed, and
                    \* this call's limit lets through no more of it

ckVars == <<ck_pc, ck_text, ck_chunk_size, ck_overlap, ck_tokens, ck_chunks,
            ck_start, ck_spans, ck_prev>>
cosVars == <<cos_pc, cos_a, cos_b, cos_ret>>
runVars == <<pc, run, uploaded_file, persona, override_skip, raw_text, keyword_text,
             fallback_chunks, fallback_i, doc_embedding, persona_vector, score, label,
             chunks, chunk_summaries, ui, calls, emitted, skipped_csv,
             provider_down>>
lbVars == <<lb_score, lb_label, lb_prev>>
kwVars == <<kw_pc, kw_outcome, kw_ret>>
embVars == <<emb_pc, emb_text, emb_tokens, emb_chars, emb_attempts, emb_outcome,
             emb_error, emb_ret>>
lgVars == <<lg_file, lg_pc, lg_entry, lg_existing, lg_logged>>
kevVars == <<kev_cache, kev_output, kev_pc, kev_n, kev_feed, kev_ok, kev_limit,
             kev_vulns, kev_i, kev_seen, kev_new_hashes, kev_new_vulns, kev_ret,
             kev_before, kev_repeat>>
libVars == <<lbVars, kwVars, embVars, lgVars, kevVars>>
vars == <<ckVars, cosVars, runVars, libVars>>

-----------------------------------------------------------------------------
(* Bounds of the model *)

\* longest text, in characters, given to chunk_text_by_tokens
MaxLen == 4
\* largest chunk_size tried on those texts
MaxSize == 3
\* largest dimension of a vector given to safe_cosine_similarity
MaxDim == 2
\* how many times Generate is pressed
MaxRuns == 2

-----------------------------------------------------------------------------
(* Arithmetic helpers *)

Min(x, y) == IF x <= y THEN x ELSE y
Max(x, y) == IF x >= y THEN x ELSE y

RECURSIVE ISqrtIn(_, _, _)
\* the largest root of a square <= n among r .. r + 2^(k+1) - 1, capped at
\* 46340, settled bit by bit from bit k down
ISqrtIn(n, r, k) ==
    IF k < 0 THEN r
    ELSE IF r + 2^k <= 46340 /\ (r + 2^k) * (r + 2^k) <= n
         THEN ISqrtIn(n, r + 2^k, k - 1)
         ELSE ISqrtIn(n, r, k - 1)

\* floor of the square root of n, 0 <= n < 2^31
ISqrt(n) == ISqrtIn(n, 0, 15)

RECURSIVE SumTo(_, _)
\* f[1] + ... + f[n]
SumTo(f, n) == IF n = 0 THEN 0 ELSE f[n] + SumTo(f, n - 1)

-----------------------------------------------------------------------------
(* The tokenizer: tiktoken's encoder for gpt-4o (utils.py 17).              *)
(* A text is a sequence of characters. "a" is a character that is one token *)
(* (token 1); "e2" is a character whose two UTF-8 bytes are two byte-level  *)
(* tokens (2 then 3); "P" stands for a reserved control sequence of the     *)
(* encoding that is not in allowed_special.                                 *)

Chars == {"a", "e2"}
Reserved == "P"
Replacement == "?"

CharTokens(c) == IF c = "a" THEN <<1>> ELSE <<2, 3>>

RECURSIVE Flatten(_)
Flatten(ss) == IF ss = <<>> THEN <<>> ELSE Head(ss) \o Flatten(Tail(ss))

\* encoder.encode(text, allowed_special={...}) raises ValueError on a reserved
\* control sequence that is not allowed
EncodeRaises(text) == \E i \in 1..Len(text) : text[i] = Reserved

\* encoder.encode of a text without such a sequence. A text of "a" only is
\* one token per character.
Encode(text) ==
    IF \A i \in 1..Len(text) : text[i] = "a"
    THEN [i \in 1..Len(text) |-> 1]
    ELSE Flatten([i \in 1..Len(text) |-> CharTokens(text[i])])

\* encoder.decode(tokens): the tokens' bytes decoded as UTF-8, errors="replace":
\* a lead byte without its continuation, and a continuation without its lead,
\* come out as the replacement character
Decode(toks) ==
    LET n == Len(toks)
        out == [i \in 1..n |->
                  CASE toks[i] = 1 -> "a"
                    [] toks[i] = 2 -> IF i < n /\ toks[i + 1] = 3 THEN "e2" ELSE Replacement
                    [] OTHER -> IF i > 1 /\ toks[i - 1] = 2 THEN "" ELSE Replacement]
    IN SelectSeq(out, LAMBDA c : c # "")

\* Python's s[lo:hi] for 0 <= lo, as a sequence
Slice(s, lo, hi) == SubSeq(s, lo + 1, Min(hi, Len(s)))

-----------------------------------------------------------------------------
(* chunk_text_by_tokens, utils.py 49-64 *)

\* chunks = []   (line 57); the parameter is the list an earlier call built
InitChunksShared(earlier) == earlier
InitChunks(earlier) == << >>

\* start += chunk_size - overlap   (line 63)
StrideNone(chunk_size, overlap) == chunk_size - chunk_size
StrideNoOverlap(chunk_size, overlap) == chunk_size
Stride(chunk_size, overlap) == chunk_size - overlap

\* while start < len(tokens)   (line 59)
LoopCondInclusive(start, ntokens) == start <= ntokens
LoopCond(start, ntokens) == start < ntokens

\* texts of at most MaxLen characters
RECURSIVE TextsOfLen(_)
TextsOfLen(n) ==
    IF n = 0 THEN {<< >>}
    ELSE {Append(t, c) : t \in TextsOfLen(n - 1), c \in Chars}
Texts == UNION {TextsOfLen(n) : n \in 0..MaxLen} \cup {<<Reserved>>}

\* (chunk_size, overlap) with 0 < overlap < chunk_size
SmallParams == {p \in (1..MaxSize) \X (1..MaxSize) : p[2] < p[1]}

\* the defaults of the signature (line 49) and the fallback call's arguments
\* (persona_summarizer_streamlit_dynamic.py line 77)
DefaultParams == <<3072, 256>>
FallbackParamsDefault == DefaultParams
FallbackParams == <<1000, 100>>

\* the 10,000-token document of the end-to-end scenario
ScenarioText == [i \in 1..10000 |-> "a"]

ChunkInputs ==
    {<<t, p[1], p[2]>> : t \in Texts, p \in SmallParams}
    \cup {<<t, DefaultParams[1], DefaultParams[2]>> : t \in TextsOfLen(1) \cup TextsOfLen(0)}
    \cup {<<ScenarioText, DefaultParams[1], DefaultParams[2]>>}

\* the calls whose results are compared with one another: the shorter texts
RechunkInputs == {inp \in ChunkInputs : Len(inp[1]) < MaxLen}

\* no call of the model needs more iterations than this
ChunkCap == MaxLen * 2 + 2

NoCall == [text |-> << >>, chunk_size |-> 0, overlap |-> 0, chunks |-> << >>,
           spans |-> << >>, done |-> FALSE]

ChunkIdle ==
    /\ ck_pc = "idle"
    /\ ck_text = << >>
    /\ ck_chunk_size = 0
    /\ ck_overlap = 0
    /\ ck_tokens = << >>
    /\ ck_chunks = << >>
    /\ ck_start = 0
    /\ ck_spans = << >>
    /\ ck_prev = NoCall

\* the call, up to the loop: lines 50-58
EnterChunking(text, chunk_size, overlap) ==
    /\ ck_pc \in {"idle", "done", "raised"}
    /\ ck_text' = text
    /\ ck_chunk_size' = chunk_size
    /\ ck_overlap' = overlap
    /\ IF EncodeRaises(text)
       THEN \* line 51 raises ValueError; line 54 leaves the sequence in the
            \* text, and line 55 raises again, out of the function
            /\ ck_pc' = "raised"
            /\ ck_tokens' = << >>
            /\ ck_chunks' = << >>
            /\ ck_spans' = << >>
            /\ ck_start' = 0
       ELSE /\ ck_pc' = "loop"
            /\ ck_tokens' = Encode(text)
            /\ ck_chunks' = InitChunks(ck_chunks)
            /\ ck_spans' = << >>
            /\ ck_start' = 0
    /\ UNCHANGED <<cosVars, runVars, libVars>>

\* a call of the function
ChunkCall ==
    /\ \E inp \in ChunkInputs : EnterChunking(inp[1], inp[2], inp[3])
    /\ UNCHANGED ck_prev

\* a call of the function, the call before it remembered
ChunkCallAgain ==
    /\ \E inp \in RechunkInputs : EnterChunking(inp[1], inp[2], inp[3])
    /\ ck_prev' = IF ck_pc = "done"
                  THEN [text |-> ck_text, chunk_size |-> ck_chunk_size,
                        overlap |-> ck_overlap, chunks |-> ck_chunks,
                        spans |-> ck_spans, done |-> TRUE]
                  ELSE ck_prev

\* one iteration of the loop: lines 59-63
ChunkLoop ==
    /\ ck_pc = "loop"
    /\ LoopCond(ck_start, Len(ck_tokens))
    /\ Len(ck_chunks) < ChunkCap
    /\ LET end == ck_start + ck_chunk_size
       IN /\ ck_chunks' = Append(ck_chunks, Decode(Slice(ck_tokens, ck_start, end)))
          /\ ck_spans' = Append(ck_spans, <<ck_start, end>>)
    /\ ck_start' = ck_start + Stride(ck_chunk_size, ck_overlap)
    /\ UNCHANGED <<ck_pc, ck_text, ck_chunk_size, ck_overlap, ck_tokens, ck_prev>>
    /\ UNCHANGED <<cosVars, runVars, libVars>>

\* the loop's exit and the return: lines 59, 64
ChunkReturn ==
    /\ ck_pc = "loop"
    /\ ~LoopCond(ck_start, Len(ck_tokens))
    /\ ck_pc' = "done"
    /\ UNCHANGED <<ck_text, ck_chunk_size, ck_overlap, ck_tokens, ck_chunks,
                   ck_start, ck_spans, ck_prev>>
    /\ UNCHANGED <<cosVars, runVars, libVars>>

-----------------------------------------------------------------------------
(* safe_cosine_similarity, utils.py 37-43 *)
(* Vectors are sequences of integers whose norms are integers, so that the   *)
(* product of the norms is an integer and the score can be computed exactly. *)
(* Scores are integers in units of 1/10000 (the function rounds to 4 places).*)

Dot(a, b) == SumTo([i \in 1..Len(a) |-> a[i] * b[i]], Len(a))

\* np.linalg.norm(v), for a vector whose norm is an integer
Norm(v) == ISqrt(Dot(v, v))

\* np.linalg.norm(a) == 0 or np.linalg.norm(b) == 0   (line 38)
ZeroGuardFirstOnly(a, b) == Norm(a) = 0
ZeroGuard(a, b) == Norm(a) = 0 \/ Norm(b) = 0

RECURSIVE Pow10(_)
Pow10(k) == IF k = 0 THEN 1 ELSE 10 * Pow10(k - 1)

RECURSIVE ScaledDiv(_, _, _)
\* floor(num * 10^k / den), by long division (no intermediate exceeds 10 * den)
ScaledDiv(num, den, k) ==
    IF k = 0 THEN num \div den
    ELSE (num \div den) * Pow10(k) + ScaledDiv((num % den) * 10, den, k - 1)

\* lines 40-43 for a dot product d and a product of norms r > 0:
\*   raw = d / r; adjusted = (raw + 1) / 2; penalized = adjusted ** 1.5;
\*   round(min(max(penalized, 0.0), 1.0), 4)
\* in units of 1/10000. With g = d + r, (2 * 10^4 * penalized)^2 is
\* 5 * 10^7 * g^3 / r^3, and the rounded score is the s with
\* (2s - 1)^2 <= that < (2s + 1)^2.
CalibratedRaw(d, r) == (10000 * d) \div r
Calibrated(d, r) ==
    LET g == Max(d + r, 0)
        f == ScaledDiv(5 * g * g * g, r * r * r, 7)
        s == (ISqrt(f) + 1) \div 2
    IN Min(Max(s, 0), 10000)

Returned(v) == [kind |-> "value", value |-> v]
\* a float that is not a number: 0.0 / 0.0 in numpy is nan, not an exception
NaN == [kind |-> "nan", value |-> 0]
\* an exception leaves the function
Raised == [kind |-> "raised", value |-> 0]

SafeCosineSimilarity(a, b) ==
    IF ZeroGuard(a, b) THEN Returned(0)
    ELSE IF Len(a) # Len(b) THEN Raised   \* np.dot: shapes not aligned
    ELSE IF Norm(a) * Norm(b) = 0 THEN NaN
    ELSE Returned(Calibrated(Dot(a, b), Norm(a) * Norm(b)))

IsSquare(n) == ISqrt(n) * ISqrt(n) = n

CosComps == {-4, -3, 0, 1, 3, 4}

RECURSIVE VecsOfDim(_)
VecsOfDim(n) ==
    IF n = 0 THEN {<< >>}
    ELSE {Append(v, c) : v \in VecsOfDim(n - 1), c \in CosComps}

CosVecs == {v \in UNION {VecsOfDim(n) : n \in 0..MaxDim} : IsSquare(Dot(v, v))}

CosIdle ==
    /\ cos_pc = "idle"
    /\ cos_a = << >>
    /\ cos_b = << >>
    /\ cos_ret = Returned(0)

\* a call of the function
CosCall ==
    /\ cos_pc = "idle"
    /\ \E a \in CosVecs, b \in CosVecs :
          /\ cos_a' = a
          /\ cos_b' = b
          /\ cos_ret' = SafeCosineSimilarity(a, b)
    /\ cos_pc' = IF cos_ret'.kind = "raised" THEN "raised" ELSE "returned"
    /\ UNCHANGED <<ckVars, runVars, libVars>>

\* the caller has the result (or the exception); the frame is gone
CosDone ==
    /\ cos_pc \in {"returned", "raised"}
    /\ cos_pc' = "idle"
    /\ cos_a' = << >>
    /\ cos_b' = << >>
    /\ cos_ret' = Returned(0)
    /\ UNCHANGED <<ckVars, runVars, libVars>>

-----------------------------------------------------------------------------
(* The `if generate:` block, persona_summarizer_streamlit_dynamic.py 54-185. *)
(* One press of "Generate Summary" is one run of the script; a text is a     *)
(* record of its token count and of whether it holds a reserved control      *)
(* sequence, and a chunk is the token range tokens[start:end] it decodes.    *)

\* score >= 0.8, 0.6, 0.5 (lines 101-108) and score < 0.4 (line 112), in 1/10000
ExcellentMin == 8000
GoodMin == 6000
ModerateMin == 5000
GateMin == 4000

Personas == {"Malware Analyst", "SOC Analyst"}

NoFile == [name |-> "", content |-> "none", ntokens |-> 0, reserved |-> FALSE]

\* token counts of the uploaded documents
DocTokenCounts == {0, 1, 3100}

\* what the upload widget can hold: a readable text of some length, a text
\* with a reserved control sequence in it, and files their extractor rejects
Files ==
    {[name |-> "notes.txt", content |-> "text", ntokens |-> n, reserved |-> FALSE] :
        n \in DocTokenCounts}
    \cup {[name |-> "notes.txt", content |-> "text", ntokens |-> 3100, reserved |-> TRUE],
          [name |-> "notes.txt", content |-> "corrupt", ntokens |-> 0, reserved |-> FALSE],
          [name |-> "report.pdf", content |-> "text", ntokens |-> 1, reserved |-> FALSE],
          [name |-> "report.pdf", content |-> "corrupt", ntokens |-> 0, reserved |-> FALSE],
          [name |-> "bundle.zip", content |-> "corrupt", ntokens |-> 0, reserved |-> FALSE],
          [name |-> "data.json", content |-> "corrupt", ntokens |-> 0, reserved |-> FALSE]}

\* uploaded_file.name.endswith(ext)
EndsWith(name, ext) ==
    \/ ext = ".zip" /\ name = "bundle.zip"
    \/ ext = ".txt" /\ name = "notes.txt"
    \/ ext = ".json" /\ name = "data.json"

NoText == [ntokens |-> 0, reserved |-> FALSE]

\* extract_keywords_from_text (utils.py 183-205) returns the stripped reply,
\* or "" when the completion call raised
KeywordReplies == {"", "threat actor, CVE"}

\* what chat.completions.create came to inside extract_keywords_from_text:
\* a reply with that stripped content, or an exception
KeywordOutcomes ==
    {[raised |-> FALSE, reply |-> r] : r \in KeywordReplies}
        \cup {[raised |-> TRUE, reply |-> ""]}

\* utils.py 203-205: except Exception as e: print(...); return ""
KeywordsOnFailureFound == "threat actor, CVE"
KeywordsOnFailure == ""

\* what extract_keywords_from_text hands to the script
KeywordsResult(outcome) == IF outcome.raised THEN KeywordsOnFailure ELSE outcome.reply

\* s.strip() is empty
Blank(s) == s = ""

\* a keyword-extraction call, as the trace of the run's outward calls records it
KeywordCall(reply) == IF Blank(reply) THEN "keywords:empty" ELSE "keywords:found"

\* the embedding of the keyword string, and the vectors the persona store
\* holds; np.zeros(1536) is what fetch_persona_vector falls back to
DocVecs == {<<1, 0, 0, 0, 0>>}
StoredVecs ==
    {<<51, 20, 20, 8, 4>>, <<3, 4, 0, 0, 0>>, <<7, 24, 0, 0, 0>>, <<9, 40, 0, 0, 0>>,
     <<0, 1, 0, 0, 0>>, <<-3, 4, 0, 0, 0>>}
ZeroVector == <<0, 0, 0, 0, 0>>

RECURSIVE WindowsFrom(_, _, _, _)
\* the loop of chunk_text_by_tokens (utils.py 59-63) from cursor `start` on a
\* text of n tokens: the token range of every chunk it appends
WindowsFrom(start, n, chunk_size, overlap) ==
    IF LoopCond(start, n)
    THEN <<[start |-> start, end |-> Min(start + chunk_size, n)]>>
         \o WindowsFrom(start + Stride(chunk_size, overlap), n, chunk_size, overlap)
    ELSE << >>

\* chunk_text_by_tokens(text, chunk_size, overlap) of a text that encodes
ChunkTextByTokens(text, chunk_size, overlap) == WindowsFrom(0, text.ntokens, chunk_size, overlap)

\* round(score, 3), in units of 1/10000
Round3Identity(sc) == sc
Round3(sc) == ((sc + 5) \div 10) * 10

\* lines 101-108
LabelOfSwapped(sc) ==
    IF sc >= ExcellentMin THEN "Excellent"
    ELSE IF sc >= GoodMin THEN "Moderate"
    ELSE IF sc >= ModerateMin THEN "Good"
    ELSE "Poor"
LabelOfGoodOnTop(sc) ==
    IF sc >= ExcellentMin THEN "Good"
    ELSE IF sc >= GoodMin THEN "Good"
    ELSE IF sc >= ModerateMin THEN "Moderate"
    ELSE "Poor"
LabelOf(sc) ==
    IF sc >= ExcellentMin THEN "Excellent"
    ELSE IF sc >= GoodMin THEN "Good"
    ELSE IF sc >= ModerateMin THEN "Moderate"
    ELSE "Poor"

\* score < 0.4 and not override_skip   (line 112)
GateRejectsAlways(sc, override) == sc < GateMin
GateRejectsWithOverride(sc, override) == sc < GateMin /\ override
GateRejectsPoor(sc, override) == sc < ModerateMin /\ ~override
GateRejects(sc, override) == sc < GateMin /\ ~override

\* not keyword_text.strip()   (line 83)
KeywordGateRejectsUnlessOverride(kw, override) == Blank(kw) /\ ~override
KeywordGateRejects(kw, override) == Blank(kw)

\* the dict of lines 85-91 and 115-121
LogEntry(ts, p, sc, lb, fname) ==
    [timestamp |-> ts, persona |-> p, score |-> sc, label |-> lb, filename |-> fname]

\* log_skipped_summary (utils.py 91-98): the rows read back, the entry
\* concatenated, the whole table written again
LogSkippedSummaryDropped(rows, entry) == rows
LogSkippedSummaryOverwrite(rows, entry) == <<entry>>
LogSkippedSummary(rows, entry) == Append(rows, entry)

\* the error placeholder of line 143 for the chunk at enumerate index i
ErrorPlaceholderZeroBased(i) == [kind |-> "error", index |-> i]
ErrorPlaceholder(i) == [kind |-> "error", index |-> i + 1]

\* the reply appended at line 140: the summary of that chunk
SummaryOf(chunk) == [kind |-> "summary", chunk |-> chunk]

RunLocalsFresh ==
    /\ raw_text' = NoText
    /\ keyword_text' = ""
    /\ fallback_chunks' = << >>
    /\ fallback_i' = 0
    /\ doc_embedding' = << >>
    /\ persona_vector' = << >>
    /\ score' = 0
    /\ label' = ""
    /\ chunks' = << >>
    /\ chunk_summaries' = << >>
    /\ provider_down' = TRUE

RunIdle ==
    /\ pc = "idle"
    /\ run = 0
    /\ uploaded_file = NoFile
    /\ persona = "Malware Analyst"
    /\ override_skip = FALSE
    /\ raw_text = NoText
    /\ keyword_text = ""
    /\ fallback_chunks = << >>
    /\ fallback_i = 0
    /\ doc_embedding = << >>
    /\ persona_vector = << >>
    /\ score = 0
    /\ label = ""
    /\ chunks = << >>
    /\ chunk_summaries = << >>
    /\ ui = << >>
    /\ calls = << >>
    /\ emitted = << >>
    /\ skipped_csv = << >>
    /\ provider_down = TRUE

Ended == pc \in {"stopped", "rejected", "crashed", "done"}

\* an exception leaves the script: Streamlit shows it and the run is over
Crash ==
    /\ pc' = "crashed"
    /\ ui' = Append(ui, "exception")

\* the button is pressed with some widget values: lines 41-57
Generate ==
    /\ pc = "idle" \/ Ended
    /\ run < MaxRuns
    /\ run' = run + 1
    /\ \E f \in Files \cup {NoFile}, p \in Personas, o \in BOOLEAN :
          /\ uploaded_file' = f
          /\ persona' = p
          /\ override_skip' = o
          /\ IF f = NoFile
             THEN /\ ui' = <<"warning:upload">>
                  /\ pc' = "stopped"
             ELSE /\ ui' = << >>
                  /\ pc' = "extract"
    /\ calls' = << >>
    /\ emitted' = << >>
    /\ RunLocalsFresh
    /\ UNCHANGED skipped_csv
    /\ UNCHANGED <<ckVars, cosVars, libVars>>

\* text extraction: lines 59-71
ExtractText ==
    /\ pc = "extract"
    /\ IF uploaded_file.content = "text"
       THEN /\ raw_text' = [ntokens |-> uploaded_file.ntokens,
                            reserved |-> uploaded_file.reserved]
            /\ pc' = "keywords"
            /\ UNCHANGED ui
       ELSE IF EndsWith(uploaded_file.name, ".json")
       THEN \* lines 67-69: st.error, st.stop
            /\ ui' = Append(ui, "error:json")
            /\ pc' = "stopped"
            /\ UNCHANGED raw_text
       ELSE /\ Crash
            /\ UNCHANGED raw_text
    /\ UNCHANGED <<run, uploaded_file, persona, override_skip, provider_down, keyword_text,
                   fallback_chunks, fallback_i, doc_embedding, persona_vector, score,
                   label, chunks, chunk_summaries, calls, emitted, skipped_csv>>
    /\ UNCHANGED <<ckVars, cosVars, libVars>>

\* keyword extraction on the full text: lines 74-76
ExtractKeywords ==
    /\ pc = "keywords"
    /\ \E outcome \in KeywordOutcomes :
          /\ keyword_text' = KeywordsResult(outcome)
          /\ provider_down' = (provider_down /\ outcome.raised)
    /\ calls' = Append(calls, KeywordCall(keyword_text'))
    /\ pc' = IF Blank(keyword_text') THEN "fallback" ELSE "keyword_gate"
    /\ UNCHANGED <<run, uploaded_file, persona, override_skip, raw_text,
                   fallback_chunks, fallback_i, doc_embedding, persona_vector, score,
                   label, chunks, chunk_summaries, ui, emitted, skipped_csv>>
    /\ UNCHANGED <<ckVars, cosVars, libVars>>

\* the fallback chunking: line 77
FallbackChunk ==
    /\ pc = "fallback"
    /\ IF raw_text.reserved
       THEN /\ Crash
            /\ UNCHANGED <<fallback_chunks, fallback_i>>
       ELSE /\ fallback_chunks' =
                  ChunkTextByTokens(raw_text, FallbackParams[1], FallbackParams[2])
            /\ fallback_i' = 0
            /\ pc' = "fallback_loop"
            /\ UNCHANGED ui
    /\ UNCHANGED <<run, uploaded_file, persona, override_skip, provider_down, raw_text,
                   keyword_text, doc_embedding, persona_vector, score, label, chunks,
                   chunk_summaries, calls, emitted, skipped_csv>>
    /\ UNCHANGED <<ckVars, cosVars, libVars>>

\* one iteration of the fallback loop, or its end: lines 78-81
FallbackLoop ==
    /\ pc = "fallback_loop"
    /\ IF fallback_i < Len(fallback_chunks)
       THEN /\ \E outcome \in KeywordOutcomes :
                  /\ keyword_text' = KeywordsResult(outcome)
                  /\ provider_down' = (provider_down /\ outcome.raised)
            /\ calls' = Append(calls, KeywordCall(keyword_text'))
            /\ fallback_i' = fallback_i + 1
            /\ pc' = IF Blank(keyword_text') THEN "fallback_loop" ELSE "keyword_gate"
       ELSE /\ pc' = "keyword_gate"
            /\ UNCHANGED <<keyword_text, calls, fallback_i, provider_down>>
    /\ UNCHANGED <<run, uploaded_file, persona, override_skip, raw_text,
                   fallback_chunks, doc_embedding, persona_vector, score, label,
                   chunks, chunk_summaries, ui, emitted, skipped_csv>>
    /\ UNCHANGED <<ckVars, cosVars, libVars>>

\* the keyword gate: lines 83-92
KeywordGate ==
    /\ pc = "keyword_gate"
    /\ IF KeywordGateRejects(keyword_text, override_skip)
       THEN LET entry == LogEntry(run, persona, 0, "Irrelevant", uploaded_file.name)
            IN /\ ui' = Append(ui, "warning:unrelated")
               /\ emitted' = Append(emitted, entry)
               /\ skipped_csv' = LogSkippedSummary(skipped_csv, entry)
               /\ pc' = "rejected"
       ELSE /\ pc' = "glossary"
            /\ UNCHANGED <<ui, emitted, skipped_csv>>
    /\ UNCHANGED <<run, uploaded_file, persona, override_skip, provider_down,
                   raw_text, keyword_text,
                   fallback_chunks, fallback_i, doc_embedding, persona_vector, score,
                   label, chunks, chunk_summaries, calls>>
    /\ UNCHANGED <<ckVars, cosVars, libVars>>

\* fetch_glossary_context: line 94 (utils.py 211-216). get_embedding runs
\* first and may raise, uncaught; then query_astra_vectors_rest sends its
\* request (utils.py 81) and the script blocks on the response.
Glossary ==
    /\ pc = "glossary"
    /\ \/ /\ calls' = calls \o <<"embedding", "glossary_search">>
          /\ pc' = "glossary_wait"
          /\ UNCHANGED ui
       \/ /\ calls' = Append(calls, "embedding")
          /\ Crash
    /\ UNCHANGED <<run, uploaded_file, persona, override_skip, provider_down,
                   raw_text, keyword_text,
                   fallback_chunks, fallback_i, doc_embedding, persona_vector, score,
                   label, chunks, chunk_summaries, emitted, skipped_csv>>
    /\ UNCHANGED <<ckVars, cosVars, libVars>>

\* requests.post(url, headers=headers, json=payload) of utils.py 81 comes
\* back: with a response (any status: documents or []), or by raising. The
\* call is given no timeout, so nothing in the script makes it come back.
GlossaryReturn ==
    /\ pc = "glossary_wait"
    /\ \/ pc' = "embed" /\ UNCHANGED ui
       \/ Crash
    /\ UNCHANGED <<run, uploaded_file, persona, override_skip, provider_down,
                   raw_text, keyword_text,
                   fallback_chunks, fallback_i, doc_embedding, persona_vector, score,
                   label, chunks, chunk_summaries, calls, emitted, skipped_csv>>
    /\ UNCHANGED <<ckVars, cosVars, libVars>>

\* get_embedding(keyword_text): line 95 (utils.py 23-31)
Embed ==
    /\ pc = "embed"
    /\ calls' = Append(calls, "embedding")
    /\ \/ /\ \E v \in DocVecs : doc_embedding' = v
          /\ pc' = "persona"
          /\ UNCHANGED ui
       \/ /\ Crash
          /\ UNCHANGED doc_embedding
    /\ UNCHANGED <<run, uploaded_file, persona, override_skip, provider_down,
                   raw_text, keyword_text,
                   fallback_chunks, fallback_i, persona_vector, score, label, chunks,
                   chunk_summaries, emitted, skipped_csv>>
    /\ UNCHANGED <<ckVars, cosVars, libVars>>

\* fetch_persona_vector and fetch_persona_metadata: lines 96-97 (utils.py
\* 147-176). The lookups are inside try blocks: a failed or empty lookup gives
\* the zero vector; opening the client is not, and may raise.
PersonaLookup ==
    /\ pc = "persona"
    /\ \/ /\ \E v \in StoredVecs \cup {ZeroVector} : persona_vector' = v
          /\ calls' = calls \o <<"persona_vector", "persona_metadata">>
          /\ pc' = "score"
          /\ UNCHANGED ui
       \/ /\ calls' = Append(calls, "persona_vector")
          /\ Crash
          /\ UNCHANGED persona_vector
    /\ UNCHANGED <<run, uploaded_file, persona, override_skip, provider_down,
                   raw_text, keyword_text,
                   fallback_chunks, fallback_i, doc_embedding, score, label, chunks,
                   chunk_summaries, emitted, skipped_csv>>
    /\ UNCHANGED <<ckVars, cosVars, libVars>>

\* scoring and labelling: lines 99-110
Score ==
    /\ pc = "score"
    /\ \E r \in {SafeCosineSimilarity(doc_embedding, persona_vector)} :
          IF r.kind = "raised"
          THEN /\ Crash
               /\ UNCHANGED <<score, label>>
          ELSE /\ score' = r.value
               /\ label' = LabelOf(r.value)
               /\ pc' = "score_gate"
               /\ UNCHANGED ui
    /\ UNCHANGED <<run, uploaded_file, persona, override_skip, provider_down,
                   raw_text, keyword_text,
                   fallback_chunks, fallback_i, doc_embedding, persona_vector, chunks,
                   chunk_summaries, calls, emitted, skipped_csv>>
    /\ UNCHANGED <<ckVars, cosVars, libVars>>

\* the score gate: lines 112-125
ScoreGate ==
    /\ pc = "score_gate"
    /\ IF GateRejects(score, override_skip)
       THEN LET entry == LogEntry(run, persona, Round3(score), label, uploaded_file.name)
            IN /\ ui' = ui \o <<"subheader:score", "warning:limited">>
               /\ emitted' = Append(emitted, entry)
               /\ skipped_csv' = LogSkippedSummary(skipped_csv, entry)
               /\ pc' = "rejected"
       ELSE /\ ui' = Append(ui, "markdown:score")
            /\ pc' = "chunk"
            /\ UNCHANGED <<emitted, skipped_csv>>
    /\ UNCHANGED <<run, uploaded_file, persona, override_skip, provider_down,
                   raw_text, keyword_text,
                   fallback_chunks, fallback_i, doc_embedding, persona_vector, score,
                   label, chunks, chunk_summaries, calls>>
    /\ UNCHANGED <<ckVars, cosVars, libVars>>

\* chunking for summarization: lines 127-128
ChunkDocument ==
    /\ pc = "chunk"
    /\ IF raw_text.reserved
       THEN /\ Crash
            /\ UNCHANGED chunks
       ELSE /\ chunks' = ChunkTextByTokens(raw_text, DefaultParams[1], DefaultParams[2])
            /\ pc' = "summarize"
            /\ UNCHANGED ui
    /\ UNCHANGED <<run, uploaded_file, persona, override_skip, provider_down,
                   raw_text, keyword_text,
                   fallback_chunks, fallback_i, doc_embedding, persona_vector, score,
                   label, chunk_summaries, calls, emitted, skipped_csv>>
    /\ UNCHANGED <<ckVars, cosVars, libVars>>

\* one iteration of the summarization loop: lines 129-143
SummarizeChunk ==
    /\ pc = "summarize"
    /\ Len(chunk_summaries) < Len(chunks)
    /\ LET i == Len(chunk_summaries)
       IN \/ /\ chunk_summaries' = Append(chunk_summaries, SummaryOf(chunks[i + 1]))
             /\ calls' = calls \o <<"summarize:ok", "sleep">>
          \/ /\ chunk_summaries' = Append(chunk_summaries, ErrorPlaceholder(i))
             /\ calls' = Append(calls, "summarize:error")
    /\ UNCHANGED <<pc, run, uploaded_file, persona, override_skip, provider_down, raw_text,
                   keyword_text, fallback_chunks, fallback_i, doc_embedding,
                   persona_vector, score, label, chunks, ui, emitted, skipped_csv>>
    /\ UNCHANGED <<ckVars, cosVars, libVars>>

\* lines 173-185: what the run shows, and where it is, after the final
\* completion call returned ("ok") or raised ("error")
FinalSummaryUncaught(outcome) ==
    IF outcome = "ok"
    THEN [pc |-> "done", shown |-> <<"subheader:final", "write:summary">>]
    ELSE [pc |-> "crashed", shown |-> <<"exception">>]
FinalSummary(outcome) ==
    IF outcome = "ok"
    THEN [pc |-> "done", shown |-> <<"subheader:final", "write:summary">>]
    ELSE [pc |-> "done", shown |-> <<"error:final">>]

\* the final summary: lines 145-185
Reduce ==
    /\ pc = "summarize"
    /\ Len(chunk_summaries) = Len(chunks)
    /\ calls' = Append(calls, "reduce")
    /\ \E outcome \in {"ok", "error"} :
          /\ ui' = ui \o FinalSummary(outcome).shown
          /\ pc' = FinalSummary(outcome).pc
    /\ UNCHANGED <<run, uploaded_file, persona, override_skip, provider_down,
                   raw_text, keyword_text,
                   fallback_chunks, fallback_i, doc_embedding, persona_vector, score,
                   label, chunks, chunk_summaries, emitted, skipped_csv>>
    /\ UNCHANGED <<ckVars, cosVars, libVars>>

-----------------------------------------------------------------------------
(* The labelling of lines 101-108, applied to one score after another.       *)

Labels == <<"Poor", "Moderate", "Good", "Excellent">>

\* the scores labelled: the ends of [0,1], each threshold of lines 101-112
\* with its neighbours, and points between
LabelScores ==
    {0, 1, 2500, 3999, 4000, 4001, 4999, 5000, 5001, 5500, 5999, 6000, 6001,
     7000, 7999, 8000, 8001, 9000, 9999, 10000}

NoLabelling == [score |-> 0, label |-> ""]

LabelIdle ==
    /\ lb_score = 0
    /\ lb_label = ""
    /\ lb_prev = NoLabelling

\* lines 101-108 run on a score
LabelScore ==
    /\ \E sc \in LabelScores :
          /\ lb_score' = sc
          /\ lb_label' = LabelOf(sc)
    /\ lb_prev' = [score |-> lb_score, label |-> lb_label]
    /\ UNCHANGED <<ckVars, cosVars, runVars, kwVars, embVars, lgVars, kevVars>>

-----------------------------------------------------------------------------
(* extract_keywords_from_text (utils.py 183-205). The reply of the model is  *)
(* a sequence of characters: "k" a letter, "," a comma, " " a blank.         *)

ReplyChars == {"k", ",", " "}

Whitespace == {" "}

RepliesOfLen(n) == [1..n -> ReplyChars]

\* response.choices[0].message.content when it is a string
ReplyContents == UNION {RepliesOfLen(n) : n \in 0..MaxLen}

\* the exceptions of the OpenAI client
ProviderErrors ==
    {"RateLimitError", "APITimeoutError", "APIConnectionError", "BadRequestError"}

\* what the completion call comes to: a reply with string content, a reply
\* whose content is None, or an exception
CompletionOutcomes ==
    {[kind |-> "reply", content |-> c, error |-> ""] : c \in ReplyContents}
    \cup {[kind |-> "none", content |-> << >>, error |-> ""]}
    \cup {[kind |-> "error", content |-> << >>, error |-> e] : e \in ProviderErrors}

RECURSIVE LStrip(_)
LStrip(str) ==
    IF str # << >> /\ Head(str) \in Whitespace THEN LStrip(Tail(str)) ELSE str

RECURSIVE RStrip(_)
RStrip(str) ==
    IF str # << >> /\ str[Len(str)] \in Whitespace
    THEN RStrip(SubSeq(str, 1, Len(str) - 1))
    ELSE str

\* str.strip()
Strip(str) == RStrip(LStrip(str))

\* lines 196-205: the reply stripped; "" when anything in the try block
\* raised, the call itself or .strip() on a content of None
ExtractKeywordsFromTextUncaught(outcome) ==
    IF outcome.kind = "reply" THEN Returned(Strip(outcome.content)) ELSE Raised
ExtractKeywordsFromText(outcome) ==
    IF outcome.kind = "reply" THEN Returned(Strip(outcome.content)) ELSE Returned(<< >>)

NoOutcome == [kind |-> "", content |-> << >>, error |-> ""]

KeywordsIdle ==
    /\ kw_pc = "idle"
    /\ kw_outcome = NoOutcome
    /\ kw_ret = Returned(<< >>)

\* a call of the function, with what the provider does during it
KeywordsCall ==
    /\ kw_pc = "idle"
    /\ \E outcome \in CompletionOutcomes :
          /\ kw_outcome' = outcome
          /\ kw_ret' = ExtractKeywordsFromText(outcome)
    /\ kw_pc' = IF kw_ret'.kind = "raised" THEN "raised" ELSE "returned"
    /\ UNCHANGED <<ckVars, cosVars, runVars, lbVars, embVars, lgVars, kevVars>>

\* the caller has the result (or the exception)
KeywordsDone ==
    /\ kw_pc \in {"returned", "raised"}
    /\ kw_pc' = "idle"
    /\ kw_outcome' = NoOutcome
    /\ kw_ret' = Returned(<< >>)
    /\ UNCHANGED <<ckVars, cosVars, runVars, lbVars, embVars, lgVars, kevVars>>

-----------------------------------------------------------------------------
(* get_embedding (utils.py 23-31). A string argument is a record of its      *)
(* token count and of how many characters each token decodes to.             *)

\* max_tokens=8192 and max_chars=16000 (line 23)
MaxTokens == 8192
MaxChars == 16000

EmbedTokenCounts == {0, 1, 8192, 8193, 20000}

EmbedTexts ==
    {[kind |-> "str", ntokens |-> n, cpt |-> c, reserved |-> FALSE] :
        n \in EmbedTokenCounts, c \in {1, 2, 4}}
    \cup {[kind |-> "str", ntokens |-> 3, cpt |-> 4, reserved |-> TRUE],
          [kind |-> "None", ntokens |-> 0, cpt |-> 0, reserved |-> FALSE],
          [kind |-> "int", ntokens |-> 0, cpt |-> 0, reserved |-> FALSE]}

\* what openai_client.embeddings.create comes to: a response, or an
\* exception of the client
EmbeddingOutcomes ==
    {"ok", "RateLimitError", "APIConnectionError", "BadRequestError"}

NoEmbedText == [kind |-> "", ntokens |-> 0, cpt |-> 0, reserved |-> FALSE]

EmbedIdle ==
    /\ emb_pc = "idle"
    /\ emb_text = NoEmbedText
    /\ emb_tokens = 0
    /\ emb_chars = 0
    /\ emb_attempts = 0
    /\ emb_outcome = ""
    /\ emb_error = ""
    /\ emb_ret = Returned(<< >>)

\* the function is called
EmbedCall ==
    /\ emb_pc = "idle"
    /\ \E text \in EmbedTexts : emb_text' = text
    /\ emb_pc' = "entered"
    /\ UNCHANGED <<emb_tokens, emb_chars, emb_attempts, emb_outcome, emb_error, emb_ret>>
    /\ UNCHANGED <<ckVars, cosVars, runVars, lbVars, kwVars, lgVars, kevVars>>

\* tokens = encoder.encode(text): line 24
EmbedEncode ==
    /\ emb_pc = "entered"
    /\ IF emb_text.kind # "str"
       THEN /\ emb_pc' = "raised"
            /\ emb_error' = "TypeError"
            /\ emb_ret' = Raised
            /\ UNCHANGED emb_tokens
       ELSE IF emb_text.reserved
       THEN /\ emb_pc' = "raised"
            /\ emb_error' = "ValueError"
            /\ emb_ret' = Raised
            /\ UNCHANGED emb_tokens
       ELSE /\ emb_pc' = "encoded"
            /\ emb_tokens' = emb_text.ntokens
            /\ UNCHANGED <<emb_error, emb_ret>>
    /\ UNCHANGED <<emb_text, emb_chars, emb_attempts, emb_outcome>>
    /\ UNCHANGED <<ckVars, cosVars, runVars, lbVars, kwVars, lgVars, kevVars>>

\* the two truncations: lines 25-29
EmbedTruncate ==
    /\ emb_pc = "encoded"
    /\ emb_tokens' = Min(emb_tokens, MaxTokens)
    /\ emb_chars' = Min(emb_tokens' * emb_text.cpt, MaxChars)
    /\ emb_pc' = "truncated"
    /\ UNCHANGED <<emb_text, emb_attempts, emb_outcome, emb_error, emb_ret>>
    /\ UNCHANGED <<ckVars, cosVars, runVars, lbVars, kwVars, lgVars, kevVars>>

\* lines 30-31: the one call of embeddings.create for an outcome of the
\* client: the vector returned, or the client's exception leaving the
\* function as it is
EmbedRequestOutcome(outcome) ==
    IF outcome = "ok"
    THEN [pc |-> "returned", error |-> "", ret |-> Returned(<<1, 0, 0, 0, 0>>)]
    ELSE [pc |-> "raised", error |-> outcome, ret |-> Raised]

EmbedRequest ==
    /\ emb_pc = "truncated"
    /\ emb_attempts' = emb_attempts + 1
    /\ \E outcome \in EmbeddingOutcomes :
          /\ emb_outcome' = outcome
          /\ emb_pc' = EmbedRequestOutcome(outcome).pc
          /\ emb_error' = EmbedRequestOutcome(outcome).error
          /\ emb_ret' = EmbedRequestOutcome(outcome).ret
    /\ UNCHANGED <<emb_text, emb_tokens, emb_chars>>
    /\ UNCHANGED <<ckVars, cosVars, runVars, lbVars, kwVars, lgVars, kevVars>>

\* the caller has the vector (or the exception)
EmbedDone ==
    /\ emb_pc \in {"returned", "raised"}
    /\ emb_pc' = "idle"
    /\ emb_text' = NoEmbedText
    /\ emb_tokens' = 0
    /\ emb_chars' = 0
    /\ emb_attempts' = 0
    /\ emb_outcome' = ""
    /\ emb_error' = ""
    /\ emb_ret' = Returned(<< >>)
    /\ UNCHANGED <<ckVars, cosVars, runVars, lbVars, kwVars, lgVars, kevVars>>

-----------------------------------------------------------------------------
(* log_skipped_summary (utils.py 91-98), called by the sessions of one       *)
(* Streamlit server. Each session runs the script in a thread of its own;    *)
(* the function reads the whole file, concatenates, and writes the whole     *)
(* file back, with no lock.                                                  *)

MaxLogs == 3

Sessions == {1, 2}

\* the entries the two gates build (lines 85-91, 115-121); the timestamp is
\* datetime.now().isoformat(), here the number of the call
LogEntries(ts) ==
    {LogEntry(ts, p, sl[1], sl[2], "notes.txt") :
        p \in Personas, sl \in {<<0, "Irrelevant">>, <<3540, "Poor">>}}

NoEntry == LogEntry(0, "", 0, "", "")

LogIdle ==
    /\ lg_file = << >>
    /\ lg_pc = [s \in Sessions |-> "idle"]
    /\ lg_entry = [s \in Sessions |-> NoEntry]
    /\ lg_existing = [s \in Sessions |-> << >>]
    /\ lg_logged = << >>

\* how many calls were made so far
LogCalls == Len(lg_logged) + Cardinality({s \in Sessions : lg_pc[s] # "idle"})

\* a gate of session s calls log_skipped_summary(log_entry)
LogCall(s) ==
    /\ lg_pc[s] = "idle"
    /\ LogCalls < MaxLogs
    /\ \E e \in LogEntries(LogCalls + 1) : lg_entry' = [lg_entry EXCEPT ![s] = e]
    /\ lg_pc' = [lg_pc EXCEPT ![s] = "called"]
    /\ UNCHANGED <<lg_file, lg_existing, lg_logged>>
    /\ UNCHANGED <<ckVars, cosVars, runVars, lbVars, kwVars, embVars, kevVars>>

\* lines 93-96: existing = pd.read_csv(log_file), or an empty frame when the
\* file is not there
LogRead(s) ==
    /\ lg_pc[s] = "called"
    /\ lg_existing' = [lg_existing EXCEPT ![s] = lg_file]
    /\ lg_pc' = [lg_pc EXCEPT ![s] = "read"]
    /\ UNCHANGED <<lg_file, lg_entry, lg_logged>>
    /\ UNCHANGED <<ckVars, cosVars, runVars, lbVars, kwVars, embVars, kevVars>>

\* lines 97-98: the concatenation of what was read and the entry is written
\* over the file, and the call returns
LogWrite(s) ==
    /\ lg_pc[s] = "read"
    /\ lg_file' = LogSkippedSummary(lg_existing[s], lg_entry[s])
    /\ lg_logged' = Append(lg_logged, lg_entry[s])
    /\ lg_pc' = [lg_pc EXCEPT ![s] = "idle"]
    /\ lg_entry' = [lg_entry EXCEPT ![s] = NoEntry]
    /\ lg_existing' = [lg_existing EXCEPT ![s] = << >>]
    /\ UNCHANGED <<ckVars, cosVars, runVars, lbVars, kwVars, embVars, kevVars>>

-----------------------------------------------------------------------------
(* fetch_kev, cisa_scraper_kevfeed.py 29-64, called again and again by one   *)
(* process, with the two files it keeps between calls.                       *)

MaxFeed == 2
MaxFetches == 2

\* entries of the catalog; the second differs from the first in another
\* field only. date_scraped is 0 until fetch_kev stamps the entry.
KevEntry(cve, vendor, prod, notes) ==
    [cveID |-> cve, vendorProject |-> vendor, product |-> prod, notes |-> notes,
     date_scraped |-> 0]

KevEntries ==
    {KevEntry("CVE-1", "acme", "vpn", "first"),
     KevEntry("CVE-1", "acme", "vpn", "revised"),
     KevEntry("CVE-2", "acme", "vpn", "first")}

RECURSIVE FeedsOfLen(_)
FeedsOfLen(n) ==
    IF n = 0 THEN {<< >>}
    ELSE {Append(f, e) : f \in FeedsOfLen(n - 1), e \in KevEntries}

Feeds == UNION {FeedsOfLen(n) : n \in 0..MaxFeed}

\* the limit argument: None (0 here), or a number of entries
Limits == {0, 1}

\* hash_entry (lines 24-27): the sha256 digest of "cveID_vendorProject_product",
\* which is as good as the identifier itself
HashEntry(entry) == entry.cveID \o "_" \o entry.vendorProject \o "_" \o entry.product

\* vulns[:limit] when limit is given (lines 41-42)
LimitTo(vulns, limit) ==
    IF limit # 0 THEN SubSeq(vulns, 1, Min(limit, Len(vulns))) ELSE vulns

\* line 52: vuln["date_scraped"] = datetime.utcnow().isoformat()
Stamp(entry, now) == [entry EXCEPT !.date_scraped = now]

\* the test of line 50 (negated): the entry is kept
IsNewThisRun(hash_key, seen_hashes, new_hashes) ==
    hash_key \notin seen_hashes \cup new_hashes
IsNew(hash_key, seen_hashes, new_hashes) == hash_key \notin seen_hashes

\* save_seen_hashes(seen_hashes.union(new_hashes)) (line 59): the set the
\* cache file holds afterwards
SaveSeenHashesNewOnly(seen_hashes, new_hashes) == new_hashes
SaveSeenHashes(seen_hashes, new_hashes) == seen_hashes \cup new_hashes

NoFiles == [cache |-> {}, output |-> << >>]

KevIdle ==
    /\ kev_cache = {}
    /\ kev_output = << >>
    /\ kev_pc = "idle"
    /\ kev_n = 0
    /\ kev_feed = << >>
    /\ kev_ok = FALSE
    /\ kev_limit = 0
    /\ kev_vulns = << >>
    /\ kev_i = 0
    /\ kev_seen = {}
    /\ kev_new_hashes = {}
    /\ kev_new_vulns = << >>
    /\ kev_ret = << >>
    /\ kev_before = NoFiles
    /\ kev_repeat = FALSE

\* a limit that lets through no more of the same feed than the limit before
LimitWithin(limit, before) == before = 0 \/ (limit # 0 /\ limit <= before)

\* the call, the request for the feed, and the loading of the cache:
\* lines 29-47
KevCall ==
    /\ kev_pc \in {"idle", "returned"}
    /\ kev_n < MaxFetches
    /\ kev_n' = kev_n + 1
    /\ kev_before' = [cache |-> kev_cache, output |-> kev_output]
    /\ \E feed \in Feeds, limit \in Limits, ok \in BOOLEAN :
          /\ kev_feed' = feed
          /\ kev_limit' = limit
          /\ kev_ok' = ok
          /\ kev_repeat' = /\ kev_pc = "returned"
                           /\ kev_ok
                           /\ feed = kev_feed
                           /\ LimitWithin(limit, kev_limit)
          /\ IF ok
             THEN /\ kev_vulns' = LimitTo(feed, limit)
                  /\ kev_seen' = kev_cache
                  /\ kev_pc' = "loop"
             ELSE \* lines 36-38: the failure is printed, [] is returned
                  /\ kev_vulns' = << >>
                  /\ kev_seen' = {}
                  /\ kev_pc' = "returned"
    /\ kev_i' = 0
    /\ kev_new_hashes' = {}
    /\ kev_new_vulns' = << >>
    /\ kev_ret' = << >>
    /\ UNCHANGED <<kev_cache, kev_output>>
    /\ UNCHANGED <<ckVars, cosVars, runVars, lbVars, kwVars, embVars, lgVars>>

\* one iteration of the loop: lines 48-54
KevLoop ==
    /\ kev_pc = "loop"
    /\ kev_i < Len(kev_vulns)
    /\ LET vuln == kev_vulns[kev_i + 1]
           hash_key == HashEntry(vuln)
       IN IF IsNew(hash_key, kev_seen, kev_new_hashes)
          THEN /\ kev_new_vulns' = Append(kev_new_vulns, Stamp(vuln, kev_n))
               /\ kev_new_hashes' = kev_new_hashes \cup {hash_key}
          ELSE UNCHANGED <<kev_new_vulns, kev_new_hashes>>
    /\ kev_i' = kev_i + 1
    /\ UNCHANGED <<kev_cache, kev_output, kev_pc, kev_n, kev_feed, kev_ok, kev_limit,
                   kev_vulns, kev_seen, kev_ret, kev_before, kev_repeat>>
    /\ UNCHANGED <<ckVars, cosVars, runVars, lbVars, kwVars, embVars, lgVars>>

\* the end of the loop, the two writes, and the return: lines 56-64
KevSave ==
    /\ kev_pc = "loop"
    /\ kev_i = Len(kev_vulns)
    /\ IF kev_new_vulns # << >>
       THEN /\ kev_output' = kev_new_vulns
            /\ kev_cache' = SaveSeenHashes(kev_seen, kev_new_hashes)
       ELSE UNCHANGED <<kev_output, kev_cache>>
    /\ kev_ret' = kev_new_vulns
    /\ kev_pc' = "returned"
    /\ UNCHANGED <<kev_n, kev_feed, kev_ok, kev_limit, kev_vulns, kev_i, kev_seen,
                   kev_new_hashes, kev_new_vulns, kev_before, kev_repeat>>
    /\ UNCHANGED <<ckVars, cosVars, runVars, lbVars, kwVars, embVars, lgVars>>

InitEmbed ==
    ChunkIdle /\ CosIdle /\ RunIdle /\ LabelIdle /\ KeywordsIdle /\ EmbedIdle /\ LogIdle
        /\ KevIdle

NextEmbed == EmbedCall \/ EmbedEncode \/ EmbedTruncate \/ EmbedRequest \/ EmbedDone

SpecEmbed == InitEmbed /\ [][NextEmbed]_vars

InitKeywords ==
    ChunkIdle /\ CosIdle /\ RunIdle /\ LabelIdle /\ KeywordsIdle /\ EmbedIdle /\ LogIdle
        /\ KevIdle

NextKeywords == KeywordsCall \/ KeywordsDone

SpecKeywords == InitKeywords /\ [][NextKeywords]_vars

LibIdle == LabelIdle /\ KeywordsIdle /\ EmbedIdle /\ LogIdle
        /\ KevIdle

InitLog == ChunkIdle /\ CosIdle /\ RunIdle /\ LibIdle

NextLog == \E s \in Sessions : LogCall(s) \/ LogRead(s) \/ LogWrite(s)

SpecLog == InitLog /\ [][NextLog]_vars

InitKev == ChunkIdle /\ CosIdle /\ RunIdle /\ LibIdle

NextKev == KevCall \/ KevLoop \/ KevSave

SpecKev == InitKev /\ [][NextKev]_vars

InitLabel == ChunkIdle /\ CosIdle /\ RunIdle /\ LibIdle

NextLabel == LabelScore

SpecLabel == InitLabel /\ [][NextLabel]_vars

InitChunk == ChunkIdle /\ CosIdle /\ RunIdle /\ LibIdle

NextChunk ==
    \/ ChunkCall
    \/ ChunkLoop
    \/ ChunkReturn

SpecChunk == InitChunk /\ [][NextChunk]_vars

\* the loop runs on: nothing else is scheduled inside a call
SpecChunkFair == SpecChunk /\ WF_vars(ChunkLoop) /\ WF_vars(ChunkReturn)

NextRechunk ==
    \/ ChunkCallAgain
    \/ ChunkLoop
    \/ ChunkReturn

\* calls one after another, each remembering the one before it
SpecRechunk == InitChunk /\ [][NextRechunk]_vars

InitCos == ChunkIdle /\ CosIdle /\ RunIdle /\ LibIdle

NextCos == CosCall \/ CosDone

SpecCos == InitCos /\ [][NextCos]_vars

Init == ChunkIdle /\ CosIdle /\ RunIdle /\ LibIdle

Next ==
    \/ Generate
    \/ ExtractText
    \/ ExtractKeywords
    \/ FallbackChunk
    \/ FallbackLoop
    \/ KeywordGate
    \/ Glossary
    \/ GlossaryReturn
    \/ Embed
    \/ PersonaLookup
    \/ Score
    \/ ScoreGate
    \/ ChunkDocument
    \/ SummarizeChunk
    \/ Reduce

Spec == Init /\ [][Next]_vars

\* the statements of the script between two outward calls, and the calls
\* made through the OpenAI and Astra client objects: the interpreter goes on
\* to the next statement, and a client object answers or raises
RunSteps ==
    \/ ExtractText
    \/ ExtractKeywords
    \/ FallbackChunk
    \/ FallbackLoop
    \/ KeywordGate
    \/ Glossary
    \/ Embed
    \/ PersonaLookup
    \/ Score
    \/ ScoreGate
    \/ ChunkDocument
    \/ SummarizeChunk
    \/ Reduce

\* the pipeline under a scheduler that keeps running the script. The
\* response to the bare requests.post of utils.py 81 is not covered: the
\* remote end may never send it.
SpecFair == Spec /\ WF_vars(RunSteps)

-----------------------------------------------------------------------------
(* Properties of chunk_text_by_tokens *)

\* the tokens of chunk k: tokens[start:end] as the loop sliced them
SliceAt(k) == Slice(ck_tokens, ck_spans[k][1], ck_spans[k][2])

\* chunk k without the leading overlap it shares with chunk k - 1
Trimmed(k) == IF k = 1 THEN SliceAt(1) ELSE Slice(SliceAt(k), ck_overlap, Len(SliceAt(k)))

RECURSIVE Rebuilt(_)
\* the trimmed chunks 1..k, concatenated
Rebuilt(k) == IF k = 0 THEN << >> ELSE Rebuilt(k - 1) \o Trimmed(k)

\* every chunk returned is the decoded slice the loop took for it
ChunksAreSlices ==
    /\ Len(ck_chunks) = Len(ck_spans)
    /\ \A k \in 1..Len(ck_spans) : ck_chunks[k] = Decode(SliceAt(k))

\* C6: when a call with 0 < overlap < chunk_size returns, its chunks, each
\* without its leading overlap with the chunk before it, concatenate to
\* exactly the token sequence: every token is covered, in order, with no gap.
C6_TrimmedChunksRebuildTokens ==
    ck_pc = "done" =>
        /\ ChunksAreSlices
        /\ Rebuilt(Len(ck_spans)) = ck_tokens

\* a call over a split two-token character that returned three chunks or more
C6_Witness ==
    /\ ck_pc = "done"
    /\ Len(ck_spans) >= 3
    /\ Len(ck_tokens) > Len(ck_text)
    /\ Len(SliceAt(Len(ck_spans))) < ck_chunk_size

\* chunk k (k = 1, 2, ...) lies at token offset (k - 1) * (chunk_size - overlap)
\* and holds at most chunk_size tokens
Placement ==
    /\ ChunksAreSlices
    /\ \A k \in 1..Len(ck_spans) :
          /\ ck_spans[k][1] = (k - 1) * (ck_chunk_size - ck_overlap)
          /\ ck_spans[k][2] = ck_spans[k][1] + ck_chunk_size
          /\ Len(SliceAt(k)) <= ck_chunk_size

\* the 10,000-token document with chunk_size 3072 and overlap 256: exactly 4
\* chunks, starting at 0, 2816, 5632 and 8448, the last one short
Scenario3 ==
    (ck_pc = "done" /\ ck_text = ScenarioText
        /\ <<ck_chunk_size, ck_overlap>> = DefaultParams) =>
        /\ Len(ck_spans) = 4
        /\ [k \in 1..4 |-> ck_spans[k][1]] = <<0, 2816, 5632, 8448>>
        /\ Len(SliceAt(4)) < ck_chunk_size
        /\ \A k \in 1..3 : Len(SliceAt(k)) = ck_chunk_size

\* C7 as stated: chunks are placed at k * (chunk_size - overlap), and are
\* produced until the cursor exceeds the total token count.
C7_Original ==
    /\ Placement
    /\ Scenario3
    /\ ck_pc = "done" => ck_start > Len(ck_tokens)

\* C7 (amended): chunks are placed at k * (chunk_size - overlap) with at most
\* chunk_size tokens each, and are produced while the cursor is below the
\* total token count: the loop stops as soon as the cursor reaches or exceeds
\* it, so every chunk starts inside the text; the 10,000-token scenario yields
\* 4 chunks at 0, 2816, 5632, 8448.
C7_ChunkPlacement ==
    /\ Placement
    /\ Scenario3
    /\ \A k \in 1..Len(ck_spans) : ck_spans[k][1] < Len(ck_tokens)
    /\ ck_pc = "done" => ck_start >= Len(ck_tokens)

\* the scenario's call has returned
C7_Witness ==
    /\ ck_pc = "done"
    /\ ck_text = ScenarioText
    /\ Len(ck_chunks) = 4

\* C8: a call that returns after an earlier call with the same text,
\* chunk_size and overlap returns the same chunks with the same boundaries.
C8_SameInputSameChunks ==
    (/\ ck_pc = "done"
     /\ ck_prev.done
     /\ ck_prev.text = ck_text
     /\ ck_prev.chunk_size = ck_chunk_size
     /\ ck_prev.overlap = ck_overlap) =>
        /\ ck_chunks = ck_prev.chunks
        /\ ck_spans = ck_prev.spans

\* the same arguments twice in a row, with several chunks
C8_Witness ==
    /\ ck_pc = "done"
    /\ ck_prev.done
    /\ ck_prev.text = ck_text
    /\ ck_prev.chunk_size = ck_chunk_size
    /\ ck_prev.overlap = ck_overlap
    /\ Len(ck_chunks) >= 2

\* C9: with 0 < overlap < chunk_size every call's loop terminates, and the
\* cursor strictly increases on every iteration.
C9_LoopTerminates ==
    /\ (ck_pc = "loop") ~> (ck_pc = "done")
    /\ [][ChunkLoop => ck_start' > ck_start]_vars

\* a loop of at least three iterations has ended
C9_Witness ==
    /\ ck_pc = "done"
    /\ Len(ck_chunks) >= 3
    /\ ck_start >= Len(ck_tokens)

-----------------------------------------------------------------------------
(* Properties of safe_cosine_similarity *)

AllZero(v) == \A i \in 1..Len(v) : v[i] = 0

\* C10: a call with norm(a) = 0 or norm(b) = 0 raises nothing and returns
\* the minimum score 0.0.
C10_ZeroNormScoresZero ==
    (cos_pc # "idle" /\ (AllZero(cos_a) \/ AllZero(cos_b))) =>
        /\ cos_pc = "returned"
        /\ cos_ret = Returned(0)

\* a zero vector against a non-zero vector of another dimension, where the
\* dot product itself would raise
C10_Witness ==
    /\ cos_pc = "returned"
    /\ AllZero(cos_b)
    /\ ~AllZero(cos_a)
    /\ Len(cos_a) # Len(cos_b)

-----------------------------------------------------------------------------
(* The gates and the summarization loop of a run.                            *)

KeywordCalls == SelectSeq(calls, LAMBDA c : c \in {"keywords:empty", "keywords:found"})

SummarizeCalls == SelectSeq(calls, LAMBDA c : c \in {"summarize:ok", "summarize:error"})

AllEmptyReplies ==
    /\ KeywordCalls # << >>
    /\ \A k \in 1..Len(KeywordCalls) : KeywordCalls[k] = "keywords:empty"

\* the run has computed its score and label
Scored == label # ""

\* every keyword call of the run came back empty: the one on the full text
\* and one on each fallback chunk of a text that could be chunked
KeywordsExhausted ==
    /\ AllEmptyReplies
    /\ ~raw_text.reserved
    /\ pc \notin {"fallback", "fallback_loop"}
    /\ Len(KeywordCalls) = 1 + Len(fallback_chunks)

OneIrrelevantRecord ==
    /\ Len(emitted) = 1
    /\ emitted[1].label = "Irrelevant"
    /\ emitted[1].score = 0

NoSummarization ==
    /\ chunks = << >>
    /\ chunk_summaries = << >>
    /\ \A k \in 1..Len(calls) : calls[k] \notin {"summarize:ok", "summarize:error", "reduce"}

ScoreRejected == pc = "rejected" /\ Scored

\* C2 as written: a scored run below the threshold without override stops
\* before chunking and its record carries the run's persona, score, label
\* and filename.
C2_Original ==
    ScoreRejected =>
        /\ NoSummarization
        /\ Len(emitted) = 1
        /\ emitted[1].persona = persona
        /\ emitted[1].score = score
        /\ emitted[1].label = label
        /\ emitted[1].filename = uploaded_file.name

\* C2: a scored run whose score is below the threshold and whose override is
\* not set is rejected by the gate's step; the rejected run has made no
\* summarization or reduction call and has emitted one record, with the
\* run's persona, label and filename and the score rounded to three decimals.
C2_LowScoreRejects ==
    /\ [](ScoreRejected =>
            /\ NoSummarization
            /\ Len(emitted) = 1
            /\ emitted[1].persona = persona
            /\ emitted[1].score % 10 = 0
            /\ emitted[1].score - score \in -5..5
            /\ emitted[1].label = label
            /\ emitted[1].filename = uploaded_file.name
            /\ skipped_csv # << >>
            /\ skipped_csv[Len(skipped_csv)] = emitted[1])
    /\ [][(pc = "score_gate" /\ score < GateMin /\ ~override_skip) =>
            pc' = "rejected"]_vars

C2_Witness ==
    /\ ScoreRejected
    /\ score = 3536
    /\ emitted[1].score = 3540
    /\ emitted[1].persona = "SOC Analyst"

C4_OverrideBypassesWholeGate ==
    override_skip => (pc # "rejected" /\ emitted = << >>)

\* C5: the summarization loop fills one slot per chunk in chunk order: the
\* slot of a chunk whose call failed holds the error placeholder with that
\* chunk's number, every other slot holds that chunk's summary, each
\* iteration adds one slot and stays in the loop, and the loop ends with as
\* many slots as chunks.
C5_ChunkSummariesInOrder ==
    /\ [](pc \in {"summarize", "done"} =>
            /\ Len(chunk_summaries) = Len(SummarizeCalls)
            /\ Len(chunk_summaries) <= Len(chunks)
            /\ \A k \in 1..Len(chunk_summaries) :
                  IF SummarizeCalls[k] = "summarize:error"
                  THEN /\ chunk_summaries[k].kind = "error"
                       /\ chunk_summaries[k].index = k
                  ELSE /\ chunk_summaries[k].kind = "summary"
                       /\ chunk_summaries[k].chunk = chunks[k])
    /\ [](pc = "done" => Len(chunk_summaries) = Len(chunks))
    /\ [][(pc = "summarize" /\ Len(chunk_summaries) < Len(chunks)) =>
            /\ pc' = "summarize"
            /\ SubSeq(chunk_summaries', 1, Len(chunk_summaries)) = chunk_summaries
            /\ Len(chunk_summaries') = Len(chunk_summaries) + 1]_vars

C5_Witness ==
    /\ pc = "done"
    /\ Len(chunks) = 2
    /\ chunks[2].start = 2816
    /\ chunk_summaries[1].kind = "error"
    /\ chunk_summaries[2].kind = "summary"

\* the score of the run is between the square and the first power of the
\* remapped cosine (raw + 1) / 2, to within the rounding of the last decimal
BetweenSquareAndLinear(sc, a, b) ==
    LET d == Dot(a, b)
        r == Norm(a) * Norm(b)
    IN /\ sc * 2 * r <= 10000 * (d + r) + r
       /\ sc * 4 * r * r + 2 * r * r >= 10000 * (d + r) * (d + r)

\* C11: once a run is scored, its score is in [0,1] and, for vectors of
\* non-zero norm, lies between ((raw + 1) / 2)^2 and (raw + 1) / 2, as a
\* power between 1 and 2 of a number in [0,1] does; every score written into
\* a record of the run or a row of the log is in [0,1] too.
C11_ScoreInUnitInterval ==
    /\ Scored =>
          /\ score \in 0..10000
          /\ (Norm(doc_embedding) # 0 /\ Norm(persona_vector) # 0) =>
                BetweenSquareAndLinear(score, doc_embedding, persona_vector)
    /\ \A k \in 1..Len(emitted) : emitted[k].score \in 0..10000
    /\ \A k \in 1..Len(skipped_csv) : skipped_csv[k].score \in 0..10000

C11_Witness ==
    /\ pc = "rejected"
    /\ persona_vector = <<-3, 4, 0, 0, 0>>
    /\ score = 894
    /\ emitted[1].score = 890

\* the place of a label in the order Poor < Moderate < Good < Excellent; 0
\* for anything else
Rank(lb) ==
    IF \E k \in 1..Len(Labels) : Labels[k] = lb
    THEN CHOOSE k \in 1..Len(Labels) : Labels[k] = lb
    ELSE 0

\* C12: every score gets one label of the ordered set, and of two scores
\* labelled one after the other the larger never gets the lower label.
C12_LabelMonotonic ==
    /\ lb_label # "" => Rank(lb_label) \in 1..Len(Labels)
    /\ (lb_prev.label # "" /\ lb_prev.score <= lb_score) =>
          Rank(lb_prev.label) <= Rank(lb_label)
    /\ (lb_prev.label # "" /\ lb_prev.score >= lb_score) =>
          Rank(lb_prev.label) >= Rank(lb_label)

C12_Witness ==
    /\ lb_prev.score = 5999
    /\ lb_prev.label = "Moderate"
    /\ lb_score = 6000
    /\ lb_label = "Good"

StageOf(p) ==
    CASE p = "extract" -> 1
      [] p \in {"keywords", "fallback", "fallback_loop"} -> 2
      [] p \in {"keyword_gate", "glossary", "glossary_wait", "embed", "persona",
                "score"} -> 3
      [] p = "score_gate" -> 4
      [] p = "chunk" -> 5
      [] p = "summarize" -> 6
      [] p = "done" -> 7
      [] OTHER -> 0

\* C14: within a run every step stays in its stage or enters the next one,
\* or ends the run (rejected, stopped, or an exception); an ended run takes
\* no further step; Rejected is entered only from the keyword gate with
\* every keyword call empty once the retry loop is over, or from the score
\* gate with a score below the threshold and no override; no stage past
\* KeywordsExtracted is held with empty keywords, none past Scored without a
\* label.
C14_StagesInOrder ==
    /\ [][run' = run =>
            /\ ~Ended
            /\ pc' \notin {"idle", "rejected", "stopped", "crashed"} =>
                  StageOf(pc') \in {StageOf(pc), StageOf(pc) + 1}
            /\ pc' = "rejected" =>
                  \/ /\ pc = "keyword_gate"
                     /\ AllEmptyReplies
                     /\ Len(KeywordCalls) = 1 + Len(fallback_chunks)
                  \/ /\ pc = "score_gate"
                     /\ score < GateMin
                     /\ ~override_skip
            /\ pc' = "stopped" => pc \in {"idle", "extract"}]_vars
    /\ [][run' # run => (pc = "idle" \/ Ended) /\ StageOf(pc') <= 1]_vars
    /\ [](StageOf(pc) > 3 => Scored /\ ~Blank(keyword_text))
    /\ [](pc \in {"glossary", "glossary_wait", "embed", "persona", "score"}
            => ~Blank(keyword_text))
    /\ [](StageOf(pc) \in 1..3 => ~Scored)

C14_Witness ==
    /\ pc = "done"
    /\ Len(KeywordCalls) = 3
    /\ Len(chunk_summaries) = 2
    /\ run = 2
    /\ skipped_csv # << >>

\* how many times the run has put one of the things of a set on the page
Shown(things) == Len(SelectSeq(ui, LAMBDA u : u \in things))

RejectionNotices == {"warning:unrelated", "warning:limited"}

\* C15 as written: a run that is Rejected or Reduced has produced either a
\* rejection notice with one record, or a final summary, and not both.
C15_Original ==
    pc \in {"rejected", "done"} =>
        ((Shown(RejectionNotices) = 1 /\ Len(emitted) = 1)
            # (Shown({"write:summary"}) = 1))

\* C15: a Rejected run has shown one rejection notice and no summary and has
\* written one record, the last row of the log; a Reduced run has shown no
\* notice, written no record, and shown either the final summary or the
\* error message of the failed reduction call, one of the two and once.
C15_OneArtifact ==
    /\ pc = "rejected" =>
          /\ Shown(RejectionNotices) = 1
          /\ Shown({"write:summary", "error:final"}) = 0
          /\ Len(emitted) = 1
          /\ skipped_csv # << >>
          /\ skipped_csv[Len(skipped_csv)] = emitted[1]
    /\ pc = "done" =>
          /\ Shown(RejectionNotices) = 0
          /\ emitted = << >>
          /\ Shown({"write:summary", "error:final"}) = 1

C15_Witness ==
    /\ pc = "done"
    /\ Shown({"error:final"}) = 1
    /\ Shown({"write:summary"}) = 0
    /\ emitted = << >>

\* C16: a run has handed a record to the log only if it is Rejected, and
\* then exactly one; the log changes only in a step that rejects, and then
\* by that one record appended to the rows it had; a run that was accepted,
\* stopped or ended with an exception has written nothing.
C16_RecordOnlyOnRejection ==
    /\ [](emitted # << >> => (pc = "rejected" /\ Len(emitted) = 1))
    /\ [](pc \in {"chunk", "summarize", "done", "crashed", "stopped"} => emitted = << >>)
    /\ [](Len(skipped_csv) <= run)
    /\ [][skipped_csv' # skipped_csv =>
            /\ pc \in {"keyword_gate", "score_gate"}
            /\ pc' = "rejected"
            /\ Len(emitted') = 1
            /\ Len(skipped_csv') = Len(skipped_csv) + 1
            /\ SubSeq(skipped_csv', 1, Len(skipped_csv)) = skipped_csv
            /\ skipped_csv'[Len(skipped_csv')] = emitted'[1]]_vars
    /\ [][(run' = run /\ pc' # "rejected") => skipped_csv' = skipped_csv]_vars

C16_Witness ==
    /\ run = 2
    /\ pc = "crashed"
    /\ calls # << >>
    /\ calls[Len(calls)] = "embedding"
    /\ Len(skipped_csv) = 1
    /\ emitted = << >>

\* C17 as written: a run makes at most two keyword-extraction calls.
C17_Original == Len(KeywordCalls) <= 2

\* C17: after an empty reply on the full text the run calls keyword
\* extraction on the fallback chunks one after the other, each a window of
\* at most 1000 tokens starting 900 tokens after the one before, and goes on
\* only while the replies are empty: a run makes at most one call more than
\* there are fallback chunks, and concludes irrelevance only when it has
\* made them all.
C17_RetryEveryFallbackChunk ==
    /\ Len(KeywordCalls) <= 1 + Len(fallback_chunks)
    /\ \A k \in 1..(Len(KeywordCalls) - 1) : KeywordCalls[k] = "keywords:empty"
    /\ pc = "fallback_loop" => fallback_i = Len(KeywordCalls) - 1
    /\ \A k \in 1..Len(fallback_chunks) :
          /\ fallback_chunks[k].start = 900 * (k - 1)
          /\ fallback_chunks[k].start < raw_text.ntokens
          /\ fallback_chunks[k].end - fallback_chunks[k].start \in 1..1000
    /\ (pc = "keyword_gate" /\ Blank(keyword_text)) =>
          Len(KeywordCalls) = 1 + Len(fallback_chunks)

C17_Witness ==
    /\ pc = "keyword_gate"
    /\ Len(fallback_chunks) = 4
    /\ Len(KeywordCalls) = 4
    /\ KeywordCalls[4] = "keywords:found"

\* C18: a call of extract_keywords_from_text never ends with an exception,
\* and when the completion call raised (or gave no text) it returns the
\* empty string; a reply is returned without its surrounding blanks.
C18_KeywordsFailSoft ==
    /\ kw_pc # "raised"
    /\ kw_pc = "returned" =>
          /\ kw_ret.kind = "value"
          /\ kw_outcome.kind # "reply" => kw_ret.value = << >>
          /\ kw_outcome.kind = "reply" =>
                /\ Len(kw_ret.value) <= Len(kw_outcome.content)
                /\ kw_ret.value # << >> =>
                      /\ Head(kw_ret.value) # " "
                      /\ kw_ret.value[Len(kw_ret.value)] # " "

C18_Witness ==
    /\ kw_pc = "returned"
    /\ kw_outcome.kind = "error"
    /\ kw_outcome.error = "RateLimitError"
    /\ kw_ret.kind = "value"
    /\ kw_ret.value = << >>

ReduceCalls == Len(SelectSeq(calls, LAMBDA c : c = "reduce"))

EmbedInputValid == emb_text.kind = "str" /\ emb_text.ntokens > 0

\* C20 as written: a finished call of get_embedding that was given an empty
\* or non-text argument failed with InvalidInput; one whose provider
\* signalled rate-limiting retried (more than one attempt, never more than
\* a fixed cap) and failed with ServiceUnavailable; one whose provider
\* failed otherwise failed with ProviderError.
C20_EmbeddingFailureKinds ==
    emb_pc \in {"returned", "raised"} =>
        /\ ~EmbedInputValid => (emb_pc = "raised" /\ emb_error = "InvalidInput")
        /\ (EmbedInputValid /\ emb_outcome = "RateLimitError") =>
              /\ emb_attempts \in 2..5
              /\ emb_error = "ServiceUnavailable"
        /\ (EmbedInputValid /\ emb_outcome \in {"APIConnectionError", "BadRequestError"}) =>
              emb_error = "ProviderError"

-----------------------------------------------------------------------------
(* Input handling: lines 54-74.                                              *)

\* the upload is missing, cannot be read as its type, or holds no text
InvalidDocument ==
    \/ uploaded_file = NoFile
    \/ uploaded_file.content = "corrupt"
    \/ uploaded_file.ntokens = 0

\* the messages with which the script itself reports a refused input
InvalidInputNotices == {"warning:upload", "error:json"}

\* C21 as written: a run on an empty or malformed document makes no outward
\* call (keyword completion, embedding, persona store, glossary) and, once it
\* has left extraction, has halted with a message reporting the invalid
\* input.
C21_InvalidInputHaltsBeforeCalls ==
    (pc # "idle" /\ InvalidDocument) =>
        /\ calls = << >>
        /\ pc \in {"extract", "stopped"}
        /\ pc = "stopped" => Shown(InvalidInputNotices) = 1

-----------------------------------------------------------------------------
(* Persona lookup: lines 96-122, utils.py 147-160.                           *)

\* fetch_persona_vector found no vector, or its query raised: it returned
\* np.zeros(1536)
PersonaLookupFailed == persona_vector = ZeroVector

\* C22 as written: a run whose persona lookup failed has halted with exactly
\* one message shown, and has not been scored, gated or summarized.
C22_PersonaLookupFailureHalts ==
    PersonaLookupFailed =>
        /\ pc \in {"stopped", "crashed"}
        /\ Len(ui) = 1
        /\ ~Scored
        /\ emitted = << >>
        /\ chunk_summaries = << >>

-----------------------------------------------------------------------------
(* Blocking calls: utils.py 71-85, 23-31; lines 129-143.                     *)

\* C23 as written: every run that was started eventually reaches a terminal
\* state, whatever the providers do.
C23_EveryRunEnds == (pc # "idle") ~> Ended

-----------------------------------------------------------------------------
(* The audit log under concurrent sessions: utils.py 91-98.                  *)

\* how many rows of the file are the entry e
RowsEqual(e) == Cardinality({k \in 1..Len(lg_file) : lg_file[k] = e})

\* C24 as written: the file holds every entry whose call has returned,
\* exactly once, and the rows written earlier are where they were.
C24_LogAppendOnly ==
    /\ \A k \in 1..Len(lg_logged) : RowsEqual(lg_logged[k]) = 1
    /\ Len(lg_file) = Len(lg_logged)

-----------------------------------------------------------------------------
(* Pacing of the summarization loop: lines 129-143.                          *)

\* C25 as written: no chunk-summarization call follows another without the
\* delay between them, whether the earlier call succeeded or failed, and the
\* summaries are in chunk order.
C25_DelayBetweenChunkCalls ==
    /\ \A k \in 1..(Len(calls) - 1) :
          calls[k] \in {"summarize:ok", "summarize:error"}
              => calls[k + 1] \notin {"summarize:ok", "summarize:error"}
    /\ \A k \in 1..Len(chunk_summaries) :
          \/ chunk_summaries[k] = SummaryOf(chunks[k])
          \/ chunk_summaries[k].kind = "error"

-----------------------------------------------------------------------------
(* A provider outage at the keyword gate: utils.py 196-205, lines 74-92.     *)

\* the messages that report a failure to the user
ErrorReports == {"exception", "error:json", "error:final"}

\* every keyword-extraction call the run makes has been made, on a text the
\* retry could chunk, and each of them failed with a provider error
EveryKeywordCallFailed ==
    /\ provider_down
    /\ Len(KeywordCalls) >= 1
    /\ ~raw_text.reserved
    /\ pc \notin {"fallback", "fallback_loop"}

-----------------------------------------------------------------------------
(* The score gate against the label buckets: lines 101-122.                  *)

\* the run was scored and the score gate has decided, without the override
GateDecided ==
    /\ Scored
    /\ ~override_skip
    /\ pc \in {"rejected", "chunk", "summarize", "done"}

\* C27 as written: without the override a scored run is rejected by the
\* gate exactly when its label is "Poor".
C27_Original == GateDecided => (pc = "rejected" <=> label = "Poor")

\* C27: without the override a scored run is rejected by the gate exactly
\* when its score is below 0.4; every run so rejected is labelled "Poor",
\* and a run labelled "Poor" that the gate let through has a score of at
\* least 0.4 and below 0.5.
C27_GateBelowPoorBound ==
    GateDecided =>
        /\ pc = "rejected" <=> score < GateMin
        /\ pc = "rejected" => label = "Poor"
        /\ (pc # "rejected" /\ label = "Poor") =>
              (score >= GateMin /\ score < ModerateMin)

C27_Witness ==
    /\ GateDecided
    /\ pc = "done"
    /\ label = "Poor"
    /\ score >= GateMin
    /\ Len(chunk_summaries) >= 1

-----------------------------------------------------------------------------
(* Fresh tokens in every chunk: utils.py 57-64.                              *)

\* where chunk k ends in the token sequence
ClampedEnd(k) == Min(ck_spans[k][2], Len(ck_tokens))

\* the call's arguments have 0 < overlap < chunk_size
OverlapBelowSize == 0 < ck_overlap /\ ck_overlap < ck_chunk_size

\* C28 as written: every chunk is non-empty, every chunk after the first
\* reaches past the end of its predecessor, and empty text yields no chunk.
C28_Original ==
    (ck_pc = "done" /\ OverlapBelowSize) =>
        /\ \A k \in 1..Len(ck_spans) : SliceAt(k) # << >>
        /\ \A k \in 2..Len(ck_spans) : ClampedEnd(k) > ClampedEnd(k - 1)
        /\ ck_text = << >> => ck_chunks = << >>

\* C28: every chunk is non-empty and starts after the start of its
\* predecessor; a chunk after the first reaches past the end of its
\* predecessor exactly when the predecessor stopped short of the end of the
\* token sequence, and otherwise lies entirely inside the predecessor's
\* range; empty text yields no chunk.
C28_FreshUnlessPredecessorAtEnd ==
    (ck_pc = "done" /\ OverlapBelowSize) =>
        /\ \A k \in 1..Len(ck_spans) : SliceAt(k) # << >>
        /\ \A k \in 2..Len(ck_spans) :
              /\ ck_spans[k][1] > ck_spans[k - 1][1]
              /\ ClampedEnd(k) >= ClampedEnd(k - 1)
              /\ ClampedEnd(k) > ClampedEnd(k - 1)
                    <=> ClampedEnd(k - 1) < Len(ck_tokens)
        /\ ck_text = << >> => ck_chunks = << >>

\* a call whose last chunk holds no token its predecessor lacks
C28_Witness ==
    /\ ck_pc = "done"
    /\ OverlapBelowSize
    /\ Len(ck_spans) >= 2
    /\ ClampedEnd(Len(ck_spans)) = ClampedEnd(Len(ck_spans) - 1)
    /\ SliceAt(Len(ck_spans)) # << >>

-----------------------------------------------------------------------------
(* Deduplication of the KEV catalog: cisa_scraper_kevfeed.py 14-64.          *)

\* the hashes of the entries the call returned
ReturnedHashes == {HashEntry(kev_ret[k]) : k \in 1..Len(kev_ret)}

\* C29: a finished fetch_kev call returned no entry whose hash was in the
\* cache before the call; the cache after it is the cache before it united
\* with the hashes of the returned entries, so it never shrinks; and a call
\* that follows a fetch of the same, unchanged feed returns no entry and
\* leaves the output file and the cache as they were.
C29_DedupAcrossRuns ==
    kev_pc = "returned" =>
        /\ ReturnedHashes \cap kev_before.cache = {}
        /\ kev_cache = kev_before.cache \cup ReturnedHashes
        /\ kev_before.cache \subseteq kev_cache
        /\ kev_repeat =>
              /\ kev_ret = << >>
              /\ kev_cache = kev_before.cache
              /\ kev_output = kev_before.output

\* a second fetch of a feed whose entries the first fetch returned
C29_Witness ==
    /\ kev_pc = "returned"
    /\ kev_repeat
    /\ kev_ok
    /\ Len(kev_vulns) = 2
    /\ kev_ret = << >>
    /\ Cardinality(kev_before.cache) = 2
    /\ Len(kev_output) = 2

-----------------------------------------------------------------------------
(* Repeated entries within one feed: cisa_scraper_kevfeed.py 44-59.          *)

\* C30 as written: the list a call returned, and the output file it wrote,
\* hold no two entries with the same hash.
C30_Original ==
    kev_pc = "returned" =>
        /\ \A j, k \in 1..Len(kev_ret) :
              j # k => HashEntry(kev_ret[j]) # HashEntry(kev_ret[k])
        /\ \A j, k \in 1..Len(kev_output) :
              j # k => HashEntry(kev_output[j]) # HashEntry(kev_output[k])

\* the entries of a list whose hash the cache did not hold, in order
Uncached(vulns, cache) == SelectSeq(vulns, LAMBDA e : HashEntry(e) \notin cache)

\* C30: the list a call returned holds, in feed order and stamped, every
\* entry of the fetched feed (up to the limit) whose hash was not in the
\* cache before the call, repeated as often as the feed repeats it; a call
\* that returned entries wrote exactly that list to the output file, and one
\* that returned none left the file alone.
C30_ReturnsEveryUncachedEntry ==
    kev_pc = "returned" =>
        /\ kev_ok =>
              LET fresh == Uncached(LimitTo(kev_feed, kev_limit), kev_before.cache)
              IN kev_ret = [k \in 1..Len(fresh) |-> Stamp(fresh[k], kev_n)]
        /\ ~kev_ok => kev_ret = << >>
        /\ kev_output = IF kev_ret # << >> THEN kev_ret ELSE kev_before.output

\* a feed that repeats a new entry: both copies are returned and written
C30_Witness ==
    /\ kev_pc = "returned"
    /\ Len(kev_ret) = 2
    /\ HashEntry(kev_ret[1]) = HashEntry(kev_ret[2])
    /\ kev_output = kev_ret

====
